---- MODULE Spec2Model ----
(***************************************************************************)
(* memthick: a 2D map of membrane thickness (src/src/main.rs).             *)
(*                                                                         *)
(* run() parses the arguments, checks them, loads the structure, builds    *)
(* four grids of identical geometry (upper/lower sum, upper/lower count),  *)
(* streams the trajectory frame by frame, bins every headgroup atom by the *)
(* sign of its z-distance from the membrane center, and finally writes the *)
(* per-cell thickness and the global average.                              *)
(*                                                                         *)
(* Lengths are integers in units of one grid unit.  An f64 is a signed     *)
(* integer number of units kept to F64Mant significant bits (round to      *)
(* nearest, ties to even), so that an addition can round as it does in the *)
(* program.  Quotients are kept as exact fractions.                        *)
(***************************************************************************)
EXTENDS Integers, Sequences, FiniteSets, TLC

\* ------------------------------------------------------------------ bounds
\* Longest trajectory read (frames).
MaxFrames == 2
\* Significant bits of the model's f64 significand.
F64Mant == 2
\* Longest list of observations fed in two orders (SpecOrder).
MaxObs == 3

\* Sizes of the headgroup selection (atoms in xxxMemthickReservedxxx-Heads).
HeadCounts == {1, 2}
\* Coordinates and z-distances a head can have in a frame.
XCoords == {-1, 0, 1}
YCoords == {0, 1}
ZDists == {-1, 0, 1}

\* ------------------------------------------------------------ Option<f32>
None == [some |-> FALSE, v |-> 0]
Some(x) == [some |-> TRUE, v |-> x]

\* Option::unwrap_or
unwrap_or(o, d) == IF o.some THEN o.v ELSE d

\* `a > b` on Option<f32>: the derived ordering, in which None is less than
\* every Some.
OptionGt(a, b) == a.some /\ (~b.some \/ a.v > b.v)

\* ---------------------------------------------------------------- inputs
\* Command lines: Args as parsed by clap.
ArgsSet ==
    [nan_limit : {0, 1, 2},
     xmin : {None, Some(0), Some(1)},
     xmax : {None, Some(-1), Some(1)},
     ymin : {None, Some(0)},
     ymax : {None, Some(-1)},
     bin_size : {-1, 0, 1}]

\* The box of the structure file, as System::get_box and SimBox report it.
SimBoxes ==
    { [exists |-> FALSE, x |-> 0, y |-> 0, orthogonal |-> TRUE],
      [exists |-> TRUE, x |-> 0, y |-> 0, orthogonal |-> TRUE],
      [exists |-> TRUE, x |-> 2, y |-> 1, orthogonal |-> FALSE],
      [exists |-> TRUE, x |-> 2, y |-> 1, orthogonal |-> TRUE] }

\* -------------------------------------------------------------------- f64
Abs(n) == IF n < 0 THEN -n ELSE n

RECURSIVE Pow2(_)
Pow2(k) == IF k = 0 THEN 1 ELSE 2 * Pow2(k - 1)

\* The quantum (unit in the last place) of a magnitude m: the smallest power
\* of two q with m \div q < 2^F64Mant.
RECURSIVE Ulp(_, _)
Ulp(m, q) == IF m \div q < Pow2(F64Mant) THEN q ELSE Ulp(m, 2 * q)

\* Round a magnitude to F64Mant significant bits, nearest, ties to even.
RoundMag(m) ==
    LET q == Ulp(m, 1)
        lo == (m \div q) * q
        rem == m - lo
    IN  IF 2 * rem < q THEN lo
        ELSE IF 2 * rem > q THEN lo + q
        ELSE IF (lo \div q) % 2 = 0 THEN lo ELSE lo + q

F64Round(n) == IF n < 0 THEN -RoundMag(-n) ELSE RoundMag(n)

\* `*tile += zdist as f64`: the f64 sum (the widening of an f32 is exact).
F64Add(a, b) == F64Round(a + b)

\* Non-integer f64 values: NaN, the infinities, and exact fractions n/d.
NaN == [k |-> "nan", n |-> 0, d |-> 1]
Inf(sign) == [k |-> "inf", n |-> sign, d |-> 1]

RECURSIVE Gcd(_, _)
Gcd(a, b) == IF b = 0 THEN a ELSE Gcd(b, a % b)

\* The fraction n/d (d > 0) in lowest terms.
Num(n, d) ==
    LET g == Gcd(Abs(n), d)
    IN  [k |-> "num", n |-> n \div g, d |-> d \div g]

\* sum / (count as f64)
F64Div(s, c) ==
    IF c = 0
    THEN IF s = 0 THEN NaN ELSE Inf(IF s > 0 THEN 1 ELSE -1)
    ELSE Num(s, c)

\* a - b
F64Sub(a, b) ==
    IF a.k = "nan" \/ b.k = "nan" THEN NaN
    ELSE IF a.k = "inf" THEN (IF b.k = "inf" /\ b.n = a.n THEN NaN ELSE a)
    ELSE IF b.k = "inf" THEN Inf(-b.n)
    ELSE Num(a.n * b.d - b.n * a.d, a.d * b.d)

\* a + b
F64Plus(a, b) ==
    IF a.k = "nan" \/ b.k = "nan" THEN NaN
    ELSE IF a.k = "inf" THEN (IF b.k = "inf" /\ b.n # a.n THEN NaN ELSE a)
    ELSE IF b.k = "inf" THEN b
    ELSE Num(a.n * b.d + b.n * a.d, a.d * b.d)

\* f64::is_finite
is_finite(t) == t.k = "num"

\* ---------------------------------------------------------------- GridMap
\* groan_rs::GridMap, as the program relies on it: a rectangle
\* [xmin, xmax) x [ymin, ymax) cut into square tiles of side `size`.

\* Tiles per axis: ceil((max - min) / size).
NTiles(min, max, size) == (max - min + size - 1) \div size

\* The tile indices <<ix, iy>> of a grid.
GridCells(grid) ==
    (0 .. NTiles(grid.xmin, grid.xmax, grid.size) - 1)
        \X (0 .. NTiles(grid.ymin, grid.ymax, grid.size) - 1)

\* GridMap::new(x_span, y_span, tile_dim, converter): every tile starts at
\* the zero of its type; fails on an inverted span or a tile side <= 0.
GridMapNew(xmin, xmax, ymin, ymax, size) ==
    IF xmin > xmax \/ ymin > ymax \/ size <= 0
    THEN [ok |-> FALSE, grid |-> << >>]
    ELSE [ok |-> TRUE,
          grid |-> [xmin |-> xmin, xmax |-> xmax, ymin |-> ymin, ymax |-> ymax,
                    size |-> size,
                    tiles |-> [c \in (0 .. NTiles(xmin, xmax, size) - 1)
                                      \X (0 .. NTiles(ymin, ymax, size) - 1) |-> 0]]]

\* GridMap::get_mut_at(x, y): the tile owning (x, y), or None outside the
\* rectangle.
get_mut_at(grid, x, y) ==
    IF x >= grid.xmin /\ x < grid.xmax /\ y >= grid.ymin /\ y < grid.ymax
    THEN [some |-> TRUE,
          cell |-> <<(x - grid.xmin) \div grid.size, (y - grid.ymin) \div grid.size>>]
    ELSE [some |-> FALSE, cell |-> <<0, 0>>]

\* GridMap::extract_raw(): <<x, y, value>> of every tile in row-major order
\* (x and y are twice the tile's center, min + (index + 0.5) * size).
extract_raw(grid) ==
    LET nx == NTiles(grid.xmin, grid.xmax, grid.size)
        ny == NTiles(grid.ymin, grid.ymax, grid.size)
    IN  [k \in 1 .. nx * ny |->
            LET ix == (k - 1) % nx
                iy == (k - 1) \div nx
            IN  <<2 * grid.xmin + (2 * ix + 1) * grid.size,
                  2 * grid.ymin + (2 * iy + 1) * grid.size,
                  grid.tiles[<<ix, iy>>]>>]

\* -------------------------------------------------------- the head loop
\* Mutant of TileIsUpper: a zero distance counted as upper for the sum.
TileIsUpperGe(zdist) == zdist >= 0

\* `zdist > 0.0`: the leaflet whose sum grid is looked up.
TileIsUpper(zdist) == zdist > 0

\* Mutant of CountIsUpper: a zero distance counted as upper for the count.
CountIsUpperGe(zdist) == zdist >= 0

\* `zdist > 0.0`: the leaflet whose count grid is looked up.
CountIsUpper(zdist) == zdist > 0

\* Mutant of AddToTile: the tile is overwritten instead of added to.
AddToTileAssign(grid, x, y, zdist) ==
    LET at == get_mut_at(grid, x, y)
    IN  IF at.some
        THEN [grid EXCEPT !.tiles[at.cell] = zdist]
        ELSE grid

\* Mutant of AddToTile: the magnitude of the distance is added.
AddToTileAbs(grid, x, y, zdist) ==
    LET at == get_mut_at(grid, x, y)
    IN  IF at.some
        THEN [grid EXCEPT !.tiles[at.cell] = F64Add(@, Abs(zdist))]
        ELSE grid

\* if let Some(tile) = tile_wrapped { *tile += zdist as f64; }
AddToTile(grid, x, y, zdist) ==
    LET at == get_mut_at(grid, x, y)
    IN  IF at.some
        THEN [grid EXCEPT !.tiles[at.cell] = F64Add(@, zdist)]
        ELSE grid

\* Mutant of IncrementCount: a position outside the grid is counted in the
\* first tile.
IncrementCountClamped(grid, x, y) ==
    LET at == get_mut_at(grid, x, y)
    IN  IF <<0, 0>> \in DOMAIN grid.tiles
        THEN [grid EXCEPT !.tiles[IF at.some THEN at.cell ELSE <<0, 0>>] = @ + 1]
        ELSE grid

\* if let Some(count) = count_wrapped { *count += 1; }
IncrementCount(grid, x, y) ==
    LET at == get_mut_at(grid, x, y)
    IN  IF at.some
        THEN [grid EXCEPT !.tiles[at.cell] = @ + 1]
        ELSE grid

\* The body of the loop over the heads of a frame, on the four grids
\* g = [grid_upper, count_upper, grid_lower, count_lower].
Accumulate(g, x, y, zdist) ==
    LET g1 == IF TileIsUpper(zdist)
              THEN [g EXCEPT !.grid_upper = AddToTile(@, x, y, zdist)]
              ELSE [g EXCEPT !.grid_lower = AddToTile(@, x, y, zdist)]
    IN  IF CountIsUpper(zdist)
        THEN [g1 EXCEPT !.count_upper = IncrementCount(@, x, y)]
        ELSE [g1 EXCEPT !.count_lower = IncrementCount(@, x, y)]

\* --------------------------------------------------------------- write_map
\* Mutant of Thickness: a count equal to the limit is treated as too low.
ThicknessOffByOne(upper_sum, upper_count, lower_sum, lower_count, nan_limit) ==
    IF upper_count <= nan_limit \/ lower_count <= nan_limit
    THEN NaN
    ELSE F64Sub(F64Div(upper_sum, upper_count), F64Div(lower_sum, lower_count))

\* The thickness of one cell.
Thickness(upper_sum, upper_count, lower_sum, lower_count, nan_limit) ==
    IF upper_count < nan_limit \/ lower_count < nan_limit
    THEN NaN
    ELSE F64Sub(F64Div(upper_sum, upper_count), F64Div(lower_sum, lower_count))

\* The lines of the map: <<x, y, thickness>> per cell, the four grids zipped.
MapLines(g, nan_limit) ==
    LET us == extract_raw(g.grid_upper)
        uc == extract_raw(g.count_upper)
        ls == extract_raw(g.grid_lower)
        lc == extract_raw(g.count_lower)
        n == IF Len(us) < Len(uc) THEN Len(us) ELSE Len(uc)
        m == IF Len(ls) < Len(lc) THEN Len(ls) ELSE Len(lc)
    IN  [k \in 1 .. (IF n < m THEN n ELSE m) |->
            <<us[k][1], us[k][2],
              Thickness(us[k][3], uc[k][3], ls[k][3], lc[k][3], nan_limit)>>]

\* Mutant of AverageList: every thickness is pushed, finite or not.
AverageListAll(lines) == [k \in 1 .. Len(lines) |-> lines[k][3]]

\* if thickness.is_finite() { average_thickness.push(thickness); }
RECURSIVE AverageList(_)
AverageList(lines) ==
    IF lines = << >> THEN << >>
    ELSE LET rest == AverageList(SubSeq(lines, 1, Len(lines) - 1))
             t == lines[Len(lines)][3]
         IN  IF is_finite(t) THEN Append(rest, t) ELSE rest

\* average_thickness.iter().sum::<f64>(): folds 0.0 + t1 + t2 + ...
RECURSIVE SumF64(_)
SumF64(list) ==
    IF list = << >> THEN Num(0, 1)
    ELSE F64Plus(SumF64(SubSeq(list, 1, Len(list) - 1)), list[Len(list)])

\* sum / average_thickness.len() as f64
AverageThickness(list) ==
    LET s == SumF64(list)
    IN  IF ~is_finite(s) THEN s
        ELSE IF Len(list) = 0
             THEN (IF s.n = 0 THEN NaN ELSE Inf(IF s.n > 0 THEN 1 ELSE -1))
             ELSE Num(s.n, s.d * Len(list))

\* What write_map writes: the map's lines and the trailing average.
write_map(g, nan_limit) ==
    LET lines == MapLines(g, nan_limit)
    IN  [lines |-> lines, average |-> AverageThickness(AverageList(lines))]

\* ------------------------------------------------------------------ state
VARIABLES
    args,         \* the parsed command line
    simbox,       \* the box of the structure file
    pc,           \* where run() is
    io,           \* the files opened so far
    n_heads,      \* atoms in the headgroup selection
    frame_no,     \* frames read so far
    head_no,      \* heads of the current frame processed so far
    head,         \* the head processed last: its position and zdist
    grid_upper, count_upper, grid_lower, count_lower,
    out,          \* what write_map wrote
    exit_code,    \* the process's exit status (-1 while it runs)
    err,          \* the error run() returned
    hist,         \* history: what the loop did, what the reader reported
    ord           \* two feeds of one list of observations (SpecOrder)

vars == <<args, simbox, pc, io, n_heads, frame_no, head_no, head,
          grid_upper, count_upper, grid_lower, count_lower,
          out, exit_code, err, hist, ord>>

\* The four grids as run() holds them.
Grids ==
    [grid_upper |-> grid_upper, count_upper |-> count_upper,
     grid_lower |-> grid_lower, count_lower |-> count_lower]

\* A grid not constructed yet.
NoGrid ==
    [xmin |-> 0, xmax |-> 0, ymin |-> 0, ymax |-> 0, size |-> 1, tiles |-> << >>]

NoOutput == [written |-> FALSE, lines |-> << >>, average |-> NaN]

NoOrd == [obs |-> << >>, perm |-> << >>, ia |-> 0, ib |-> 0,
          a |-> << >>, b |-> << >>, rounded |-> FALSE]

\* let xmin = args.xmin.unwrap_or(0.0); ... (the grid's effective bounds)
xmin == unwrap_or(args.xmin, 0)
xmax == unwrap_or(args.xmax, simbox.x)
ymin == unwrap_or(args.ymin, 0)
ymax == unwrap_or(args.ymax, simbox.y)

Init ==
    /\ args \in ArgsSet
    /\ simbox \in SimBoxes
    /\ pc = "sanity"
    /\ io = {}
    /\ n_heads = 0
    /\ frame_no = 0
    /\ head_no = 0
    /\ head = [x |-> 0, y |-> 0, zdist |-> 0]
    /\ grid_upper = NoGrid
    /\ count_upper = NoGrid
    /\ grid_lower = NoGrid
    /\ count_lower = NoGrid
    /\ out = NoOutput
    /\ exit_code = -1
    /\ err = "none"
    /\ hist = [added_upper |-> << >>, added_lower |-> << >>, in_grid |-> 0,
               stream_error |-> FALSE, eof |-> FALSE]
    /\ ord = NoOrd

\* main: run() returned Err(e): eprintln!, process::exit(1).
Fail(e) ==
    /\ pc' = "exit"
    /\ exit_code' = 1
    /\ err' = e

\* sanity_check_options: "ok", or the check that bailed.
sanity_check_options(a) ==
    IF a.nan_limit = 0 THEN "nan_limit"
    ELSE IF OptionGt(a.xmin, a.xmax) THEN "xrange"
    ELSE IF OptionGt(a.ymin, a.ymax) THEN "yrange"
    ELSE "ok"

\* sanity_check_options(&args)?
SanityCheck ==
    /\ pc = "sanity"
    /\ IF sanity_check_options(args) = "ok"
       THEN pc' = "from_file" /\ UNCHANGED <<exit_code, err>>
       ELSE Fail(sanity_check_options(args))
    /\ UNCHANGED <<args, simbox, io, n_heads, frame_no, head_no, head,
                   grid_upper, count_upper, grid_lower, count_lower,
                   out, hist, ord>>

\* System::from_file(&args.structure)
SystemFromFile ==
    /\ pc = "from_file"
    /\ io' = io \cup {"structure"}
    /\ \E ok \in BOOLEAN, has_index \in BOOLEAN :
          IF ok
          THEN /\ pc' = (IF has_index THEN "read_ndx" ELSE "get_box")
               /\ UNCHANGED <<exit_code, err>>
          ELSE Fail("structure")
    /\ UNCHANGED <<args, simbox, n_heads, frame_no, head_no, head,
                   grid_upper, count_upper, grid_lower, count_lower,
                   out, hist, ord>>

\* if let Some(ndx) = &args.index { system.read_ndx(ndx)?; }
ReadNdx ==
    /\ pc = "read_ndx"
    /\ io' = io \cup {"index"}
    /\ \E ok \in BOOLEAN :
          IF ok
          THEN pc' = "get_box" /\ UNCHANGED <<exit_code, err>>
          ELSE Fail("index")
    /\ UNCHANGED <<args, simbox, n_heads, frame_no, head_no, head,
                   grid_upper, count_upper, grid_lower, count_lower,
                   out, hist, ord>>

\* system.get_box(), is_orthogonal(), is_zero()
GetBox ==
    /\ pc = "get_box"
    /\ IF ~simbox.exists
       THEN Fail("no_box")
       ELSE IF ~simbox.orthogonal \/ (simbox.x = 0 /\ simbox.y = 0)
            THEN Fail("not_orthogonal")
            ELSE pc' = "groups" /\ UNCHANGED <<exit_code, err>>
    /\ UNCHANGED <<args, simbox, io, n_heads, frame_no, head_no, head,
                   grid_upper, count_upper, grid_lower, count_lower,
                   out, hist, ord>>

\* group_create and group_get_n_atoms for the lipids, then for the heads:
\* a selection has n atoms, n < 0 standing for a query that fails.
GroupCreate ==
    /\ pc = "groups"
    /\ \E lipids \in {-1, 0, 1}, heads \in {-1, 0} \cup HeadCounts :
          IF lipids < 0 THEN Fail("group") /\ UNCHANGED n_heads
          ELSE IF lipids = 0 THEN Fail("no_atoms") /\ UNCHANGED n_heads
          ELSE IF heads < 0 THEN Fail("group") /\ UNCHANGED n_heads
          ELSE IF heads = 0 THEN Fail("no_atoms") /\ UNCHANGED n_heads
          ELSE /\ n_heads' = heads
               /\ pc' = "grid_new"
               /\ UNCHANGED <<exit_code, err>>
    /\ UNCHANGED <<args, simbox, io, frame_no, head_no, head,
                   grid_upper, count_upper, grid_lower, count_lower,
                   out, hist, ord>>

\* The four GridMap::new(...)? calls, each on (xmin, xmax), (ymin, ymax),
\* (bin_size, bin_size).
GridNew ==
    /\ pc = "grid_new"
    /\ LET gu == GridMapNew(xmin, xmax, ymin, ymax, args.bin_size)
           gl == GridMapNew(xmin, xmax, ymin, ymax, args.bin_size)
           cu == GridMapNew(xmin, xmax, ymin, ymax, args.bin_size)
           cl == GridMapNew(xmin, xmax, ymin, ymax, args.bin_size)
       IN  IF gu.ok /\ gl.ok /\ cu.ok /\ cl.ok
           THEN /\ grid_upper' = gu.grid
                /\ grid_lower' = gl.grid
                /\ count_upper' = cu.grid
                /\ count_lower' = cl.grid
                /\ hist' = [hist EXCEPT !.added_upper = cu.grid.tiles,
                                        !.added_lower = cl.grid.tiles]
                /\ pc' = "xtc_iter"
                /\ UNCHANGED <<exit_code, err>>
           ELSE /\ Fail("grid")
                /\ UNCHANGED <<grid_upper, count_upper, grid_lower, count_lower,
                               hist>>
    /\ UNCHANGED <<args, simbox, io, n_heads, frame_no, head_no, head, out, ord>>

\* system.group_xtc_iter(&args.trajectory, ...)?
XtcIter ==
    /\ pc = "xtc_iter"
    /\ io' = io \cup {"trajectory"}
    /\ \E ok \in BOOLEAN :
          IF ok
          THEN pc' = "frames" /\ UNCHANGED <<exit_code, err>>
          ELSE Fail("trajectory")
    /\ UNCHANGED <<args, simbox, n_heads, frame_no, head_no, head,
                   grid_upper, count_upper, grid_lower, count_lower,
                   out, hist, ord>>

\* The iterator yields Some(Ok(frame)): the loop body starts on its heads.
ReadFrame ==
    /\ pc = "frames"
    /\ frame_no < MaxFrames
    /\ frame_no' = frame_no + 1
    /\ head_no' = 0
    /\ pc' = "heads"
    /\ UNCHANGED <<args, simbox, io, n_heads, head,
                   grid_upper, count_upper, grid_lower, count_lower,
                   out, exit_code, err, hist, ord>>

\* Mutant of FrameError: the failed frame is skipped and the loop goes on.
FrameErrorSkipped ==
    /\ pc = "frames"
    /\ frame_no < MaxFrames
    /\ hist' = [hist EXCEPT !.stream_error = TRUE]
    /\ frame_no' = frame_no + 1
    /\ UNCHANGED <<args, simbox, pc, io, n_heads, head_no, head,
                   grid_upper, count_upper, grid_lower, count_lower,
                   out, exit_code, err, ord>>

\* The iterator yields Some(Err(e)): `let frame = frame?;` returns it.
FrameError ==
    /\ pc = "frames"
    /\ frame_no < MaxFrames
    /\ hist' = [hist EXCEPT !.stream_error = TRUE]
    /\ Fail("frame")
    /\ UNCHANGED <<args, simbox, io, n_heads, frame_no, head_no, head,
                   grid_upper, count_upper, grid_lower, count_lower, out, ord>>

\* The iterator yields None: the loop ends.
TrajectoryEnd ==
    /\ pc = "frames"
    /\ hist' = [hist EXCEPT !.eof = TRUE]
    /\ pc' = "write_map"
    /\ UNCHANGED <<args, simbox, io, n_heads, frame_no, head_no, head,
                   grid_upper, count_upper, grid_lower, count_lower,
                   out, exit_code, err, ord>>

\* An unwrap() of the loop body panics (no center, no box or no position in
\* the frame): the process aborts with status 101.
HeadPanic ==
    /\ pc = "heads"
    /\ head_no < n_heads
    /\ hist' = [hist EXCEPT !.stream_error = TRUE]
    /\ pc' = "exit"
    /\ exit_code' = 101
    /\ err' = "panic"
    /\ UNCHANGED <<args, simbox, io, n_heads, frame_no, head_no, head,
                   grid_upper, count_upper, grid_lower, count_lower, out, ord>>

\* History of one head: which sum tile the loop body added to, and whether
\* the position lies in the rectangle [xmin, xmax) x [ymin, ymax).
Record(h, x, y, zdist) ==
    LET at == get_mut_at(IF TileIsUpper(zdist) THEN grid_upper ELSE grid_lower, x, y)
        inside == x >= xmin /\ x < xmax /\ y >= ymin /\ y < ymax
        h1 == IF inside THEN [h EXCEPT !.in_grid = @ + 1] ELSE h
    IN  IF ~at.some THEN h1
        ELSE IF TileIsUpper(zdist)
             THEN [h1 EXCEPT !.added_upper[at.cell] = @ + 1]
             ELSE [h1 EXCEPT !.added_lower[at.cell] = @ + 1]

\* One pass of `for head in frame.group_iter(...)`: zdist and position of the
\* head are read from the frame, then the grids are updated.
ProcessHead ==
    /\ pc = "heads"
    /\ head_no < n_heads
    /\ \E x \in XCoords, y \in YCoords, zdist \in ZDists :
          LET g == Accumulate(Grids, x, y, zdist)
          IN  /\ head' = [x |-> x, y |-> y, zdist |-> zdist]
              /\ grid_upper' = g.grid_upper
              /\ count_upper' = g.count_upper
              /\ grid_lower' = g.grid_lower
              /\ count_lower' = g.count_lower
              /\ hist' = Record(hist, x, y, zdist)
    /\ head_no' = head_no + 1
    /\ pc' = (IF head_no + 1 = n_heads THEN "frames" ELSE "heads")
    /\ UNCHANGED <<args, simbox, io, n_heads, frame_no, out, exit_code, err, ord>>

\* write_map(...)?; Ok(()) and main's process::exit(0).  File::create or a
\* writeln! may fail.
WriteMap ==
    /\ pc = "write_map"
    /\ \E result \in {"ok", "create_failed", "write_failed"} :
          IF result = "create_failed"
          THEN Fail("output") /\ UNCHANGED <<io, out>>
          ELSE /\ io' = io \cup {"output"}
               /\ IF result = "write_failed"
                  THEN Fail("output") /\ UNCHANGED out
                  ELSE /\ out' = [written |-> TRUE,
                                  lines |-> write_map(Grids, args.nan_limit).lines,
                                  average |-> write_map(Grids, args.nan_limit).average]
                       /\ pc' = "exit"
                       /\ exit_code' = 0
                       /\ UNCHANGED err
    /\ UNCHANGED <<args, simbox, n_heads, frame_no, head_no, head,
                   grid_upper, count_upper, grid_lower, count_lower, hist, ord>>

Next ==
    \/ SanityCheck
    \/ SystemFromFile
    \/ ReadNdx
    \/ GetBox
    \/ GroupCreate
    \/ GridNew
    \/ XtcIter
    \/ ReadFrame
    \/ FrameError
    \/ TrajectoryEnd
    \/ ProcessHead
    \/ HeadPanic
    \/ WriteMap

Spec == Init /\ [][Next]_vars

\* ------------------------------------------------- two orders of one feed
\* The same observations pass through the loop body in two orders: feed a
\* takes them as listed, feed b in an arbitrary order (ord.perm lists the
\* indices b has taken).  Both start from freshly constructed grids.

\* Observations fed in both orders: <<x, y, zdist>>.
OrdObs == {-1, 0} \X {0} \X {-1, 1, 2, 4}

\* A command line and a box on which run() reaches the frame loop.
OrdArgs ==
    [nan_limit |-> 1, xmin |-> None, xmax |-> None, ymin |-> None,
     ymax |-> None, bin_size |-> 1]
OrdBox == [exists |-> TRUE, x |-> 2, y |-> 1, orthogonal |-> TRUE]

\* The four grids right after construction.
FreshGrids ==
    LET g == GridMapNew(xmin, xmax, ymin, ymax, args.bin_size).grid
    IN  [grid_upper |-> g, count_upper |-> g, grid_lower |-> g, count_lower |-> g]

\* Whether the f64 addition of the loop body rounds on observation o.
Rounds(g, o) ==
    LET grid == IF TileIsUpper(o[3]) THEN g.grid_upper ELSE g.grid_lower
        at == get_mut_at(grid, o[1], o[2])
    IN  at.some /\ F64Round(grid.tiles[at.cell] + o[3]) # grid.tiles[at.cell] + o[3]

InitOrder ==
    /\ args = OrdArgs
    /\ simbox = OrdBox
    /\ pc = "heads"
    /\ io = {"structure", "trajectory"}
    /\ n_heads = 0
    /\ frame_no = 0
    /\ head_no = 0
    /\ head = [x |-> 0, y |-> 0, zdist |-> 0]
    /\ grid_upper = NoGrid
    /\ count_upper = NoGrid
    /\ grid_lower = NoGrid
    /\ count_lower = NoGrid
    /\ out = NoOutput
    /\ exit_code = -1
    /\ err = "none"
    /\ hist = [added_upper |-> << >>, added_lower |-> << >>, in_grid |-> 0,
               stream_error |-> FALSE, eof |-> FALSE]
    /\ \E n \in 1 .. MaxObs :
          \E obs \in [1 .. n -> OrdObs] :
             ord = [obs |-> obs, perm |-> << >>, ia |-> 0, ib |-> 0,
                    a |-> FreshGrids, b |-> FreshGrids, rounded |-> FALSE]

\* Feed a processes its next observation, in the order listed.
FeedA ==
    /\ ord.ia < Len(ord.obs)
    /\ ord.ia = ord.ib
    /\ LET o == ord.obs[ord.ia + 1]
       IN  ord' = [ord EXCEPT !.ia = @ + 1,
                              !.a = Accumulate(@, o[1], o[2], o[3]),
                              !.rounded = @ \/ Rounds(ord.a, o)]
    /\ UNCHANGED <<args, simbox, pc, io, n_heads, frame_no, head_no, head,
                   grid_upper, count_upper, grid_lower, count_lower,
                   out, exit_code, err, hist>>

\* Feed b processes any observation it has not processed yet.
FeedB ==
    /\ ord.ib < ord.ia
    /\ \E j \in 1 .. Len(ord.obs) :
          /\ \A i \in 1 .. Len(ord.perm) : ord.perm[i] # j
          /\ LET o == ord.obs[j]
             IN  ord' = [ord EXCEPT !.ib = @ + 1,
                                    !.perm = Append(@, j),
                                    !.b = Accumulate(@, o[1], o[2], o[3]),
                                    !.rounded = @ \/ Rounds(ord.b, o)]
    /\ UNCHANGED <<args, simbox, pc, io, n_heads, frame_no, head_no, head,
                   grid_upper, count_upper, grid_lower, count_lower,
                   out, exit_code, err, hist>>

NextOrder == FeedA \/ FeedB

SpecOrder == InitOrder /\ [][NextOrder]_vars

\* Both feeds have processed every observation.
OrderDone == ord.obs # << >> /\ ord.ia = Len(ord.obs) /\ ord.ib = Len(ord.obs)

\* ----------------------------------------------------------------- claims
\* A step of the head loop.
HeadStep == pc = "heads" /\ head_no' = head_no + 1

\* (x, y) lies in the configured rectangle [xmin, xmax) x [ymin, ymax).
InsideRect(x, y) == x >= xmin /\ x < xmax /\ y >= ymin /\ y < ymax

\* The line of the map that reports cell c (row-major).
LineOf(c) == c[2] * NTiles(grid_upper.xmin, grid_upper.xmax, grid_upper.size) + c[1] + 1

\* The lines whose thickness is defined.
DefinedLines == {k \in 1 .. Len(out.lines) : out.lines[k][3].k = "num"}

\* The sum <<n, d>> of the thickness fractions of the lines in set K.
RECURSIVE SumOver(_)
SumOver(K) ==
    IF K = {} THEN <<0, 1>>
    ELSE LET k == CHOOSE j \in K : TRUE
             r == SumOver(K \ {k})
             t == out.lines[k][3]
         IN  <<r[1] * t.d + t.n * r[2], r[2] * t.d>>

\* The sum of the values of a grid's tiles over the cells in set K.
RECURSIVE TileSum(_, _)
TileSum(tiles, K) ==
    IF K = {} THEN 0
    ELSE LET c == CHOOSE j \in K : TRUE
         IN  tiles[c] + TileSum(tiles, K \ {c})

\* C1: in the written map, a cell's thickness is NaN when its upper or its
\* lower count is below nan_limit, whatever the sums; otherwise it is
\* upper-sum / upper-count - lower-sum / lower-count of that same cell.
C1_CellThickness ==
    out.written =>
        /\ Len(out.lines) = Cardinality(GridCells(grid_upper))
        /\ \A c \in GridCells(grid_upper) :
              LET line == out.lines[LineOf(c)]
                  t == line[3]
                  us == grid_upper.tiles[c]
                  uc == count_upper.tiles[c]
                  ls == grid_lower.tiles[c]
                  lc == count_lower.tiles[c]
              IN  /\ line[1] = 2 * grid_upper.xmin + (2 * c[1] + 1) * grid_upper.size
                  /\ line[2] = 2 * grid_upper.ymin + (2 * c[2] + 1) * grid_upper.size
                  /\ IF uc < args.nan_limit \/ lc < args.nan_limit
                     THEN t = NaN
                     ELSE /\ t.k = "num"
                          /\ t.n * uc * lc = t.d * (us * lc - ls * uc)

\* A map with a cell left undefined despite a non-zero sum, and a defined one.
C1_Witness ==
    /\ out.written
    /\ \E c \in GridCells(grid_upper) :
          /\ out.lines[LineOf(c)][3] = NaN
          /\ (grid_upper.tiles[c] # 0 \/ grid_lower.tiles[c] # 0)
    /\ \E c \in GridCells(grid_upper) : out.lines[LineOf(c)][3].k = "num"

\* C2: the global average written is the arithmetic mean of exactly the
\* cells whose thickness is defined; with no defined cell it is NaN, not
\* zero, and the run still ends with exit status 0.
C2_GlobalAverage ==
    out.written =>
        /\ pc = "exit" /\ exit_code = 0
        /\ IF DefinedLines = {}
           THEN out.average = NaN
           ELSE /\ out.average.k = "num"
                /\ out.average.n * Cardinality(DefinedLines) * SumOver(DefinedLines)[2]
                      = SumOver(DefinedLines)[1] * out.average.d

\* A map with a defined and an undefined cell.
C2_Witness ==
    /\ out.written
    /\ DefinedLines # {}
    /\ DefinedLines # 1 .. Len(out.lines)

\* C3: a head whose position lies outside the configured rectangle leaves
\* every cell of the four grids unchanged and raises no error.
C3_OutsideDropped ==
    [][(HeadStep /\ ~InsideRect(head'.x, head'.y)) =>
          /\ UNCHANGED <<grid_upper, count_upper, grid_lower, count_lower>>
          /\ pc' # "exit" /\ exit_code' = -1 /\ err' = "none"]_vars

\* A head left of xmin was processed last, on grids that hold samples.
C3_Witness ==
    /\ pc \in {"heads", "frames"}
    /\ head_no > 0
    /\ head.x < xmin
    /\ hist.in_grid > 0

\* C4: zdist > 0 selects the upper leaflet, zdist <= 0 the lower one; a head
\* inside the grid adds zdist to one cell of the selected sum grid and one
\* to the same cell of the selected count grid; the other leaflet's grids
\* do not change.
C4_LeafletBySign ==
    [][HeadStep =>
          LET z == head'.zdist
              inside == InsideRect(head'.x, head'.y)
          IN  IF z > 0
              THEN /\ UNCHANGED <<grid_lower, count_lower>>
                   /\ inside =>
                         \E c \in GridCells(grid_upper) :
                            /\ grid_upper' = [grid_upper EXCEPT !.tiles[c] = F64Add(@, z)]
                            /\ count_upper' = [count_upper EXCEPT !.tiles[c] = @ + 1]
              ELSE /\ UNCHANGED <<grid_upper, count_upper>>
                   /\ inside =>
                         \E c \in GridCells(grid_lower) :
                            /\ grid_lower' = [grid_lower EXCEPT !.tiles[c] = F64Add(@, z)]
                            /\ count_lower' = [count_lower EXCEPT !.tiles[c] = @ + 1]]_vars

\* A head exactly on the midplane, inside the grid, was processed last.
C4_Witness ==
    /\ pc \in {"heads", "frames"}
    /\ head_no > 0
    /\ head.zdist = 0
    /\ InsideRect(head.x, head.y)
    /\ TileSum(count_lower.tiles, GridCells(count_lower)) > 0

\* C5: every configuration error (min > max on an axis, nan_limit = 0,
\* bin_size <= 0) is detected before any file is opened and makes the
\* process exit with a non-zero status.
C5_ConfigErrorsBeforeIO ==
    LET inverted ==
            \/ (args.xmin.some /\ args.xmax.some /\ args.xmin.v > args.xmax.v)
            \/ (args.ymin.some /\ args.ymax.some /\ args.ymin.v > args.ymax.v)
            \/ (simbox.exists /\ (xmin > xmax \/ ymin > ymax))
    IN  (args.nan_limit = 0 \/ args.bin_size <= 0 \/ inverted) =>
            /\ io = {}
            /\ pc = "exit" => exit_code = 1

\* C6: a frame the reader fails on aborts the run with a non-zero status
\* and no output; the output file is created only after the trajectory was
\* read to its end with every frame processed.
C6_NoOutputOnStreamError ==
    /\ hist.stream_error =>
          /\ pc = "exit" /\ exit_code > 0
          /\ "output" \notin io /\ ~out.written
    /\ ("output" \in io \/ out.written) =>
          /\ hist.eof /\ ~hist.stream_error
          /\ frame_no > 0 => head_no = n_heads

\* The reader failed after a frame had been accumulated.
C6_Witness ==
    /\ hist.stream_error
    /\ frame_no > 0
    /\ hist.in_grid > 0
    /\ pc = "exit"

\* C7 as claimed: the same observations fed in any order from fresh grids
\* give identical sums and counts in every cell of the four grids.
C7_OrderIndependent == OrderDone => ord.a = ord.b

\* C7 amended: the counts are identical in every cell whatever the order;
\* the sums are identical whenever no f64 addition of either feed rounded.
C7_OrderIndependentExact ==
    OrderDone =>
        /\ ord.a.count_upper = ord.b.count_upper
        /\ ord.a.count_lower = ord.b.count_lower
        /\ ~ord.rounded => ord.a = ord.b

\* Two feeds in different orders, without rounding, of samples that share a
\* tile.
C7_Witness ==
    /\ OrderDone
    /\ ~ord.rounded
    /\ ord.perm[1] # 1
    /\ \E c \in GridCells(ord.a.count_upper) : ord.a.count_upper.tiles[c] >= 2

\* C8: a run (on a usable box, its other options valid) is rejected for an
\* invalid range on an axis exactly when the effective minimum (an omitted
\* minimum being 0, an omitted maximum the box extent) exceeds the effective
\* maximum on that axis.
C8_RangeRejectedIffInverted ==
    (simbox.exists /\ simbox.orthogonal /\ simbox.x > 0
        /\ args.nan_limit > 0 /\ args.bin_size > 0) =>
        /\ err = "xrange" => xmin > xmax
        /\ err = "yrange" => ymin > ymax
        /\ pc \in {"xtc_iter", "frames", "heads", "write_map"} =>
              (xmin <= xmax /\ ymin <= ymax)

\* C9: in each leaflet every count cell equals the number of observations
\* added to the matching sum cell, and all counts together equal the number
\* of heads processed inside the grid.
C9_CountsMatchSums ==
    /\ \A c \in GridCells(count_upper) : count_upper.tiles[c] = hist.added_upper[c]
    /\ \A c \in GridCells(count_lower) : count_lower.tiles[c] = hist.added_lower[c]
    /\ TileSum(count_upper.tiles, GridCells(count_upper))
          + TileSum(count_lower.tiles, GridCells(count_lower)) = hist.in_grid

\* Both leaflets hold samples and a head of the second frame was dropped.
C9_Witness ==
    /\ TileSum(count_upper.tiles, GridCells(count_upper)) > 0
    /\ TileSum(count_lower.tiles, GridCells(count_lower)) > 0
    /\ frame_no = 2
    /\ head_no > 0
    /\ ~InsideRect(head.x, head.y)

\* C10: every upper sum is >= 0, and > 0 where the upper count is > 0;
\* every lower sum is <= 0; every defined thickness written is > 0.
C10_SignsOfSums ==
    /\ \A c \in GridCells(grid_upper) :
          /\ grid_upper.tiles[c] >= 0
          /\ count_upper.tiles[c] > 0 => grid_upper.tiles[c] > 0
          /\ grid_lower.tiles[c] <= 0
    /\ \A k \in 1 .. Len(out.lines) :
          out.lines[k][3].k = "num" => out.lines[k][3].n > 0

\* A defined thickness was written for a cell whose lower sum is zero.
C10_Witness ==
    /\ out.written
    /\ \E c \in GridCells(grid_upper) :
          /\ out.lines[LineOf(c)][3].k = "num"
          /\ grid_lower.tiles[c] = 0
          /\ count_lower.tiles[c] > 0

====
